---- MODULE Spec2Model ----
(***************************************************************************)
(* Style Finder: the match-and-synthesize pipeline of src/app.py           *)
(* (StyleFinderApp) and src/models/llm_service.py (OllamaService).         *)
(*                                                                         *)
(* Texts are sequences of string tokens; a token is an indivisible piece   *)
(* of text.  len() is the sum of the token lengths, strip() drops leading  *)
(* and trailing whitespace tokens, and `needle in text` is token           *)
(* membership.  Scores are in thousandths (0.8 is 800).                    *)
(***************************************************************************)
EXTENDS Integers, Sequences, FiniteSets, TLC

(***************************************************************************)
(* Bounds of the model.                                                    *)
(***************************************************************************)
MaxComp == 1
MaxCatalog == 3

(***************************************************************************)
(* Program constants.                                                      *)
(***************************************************************************)
SIMILARITY_THRESHOLD == 800
MinResponseLen == 100
HTTP_OK == 200

(***************************************************************************)
(* Generic helpers.                                                        *)
(***************************************************************************)
None == <<>>
Some(v) == <<v>>
IsNone(o) == Len(o) = 0
Get(o) == o[1]

RECURSIVE Rep(_, _)
Rep(s, n) ==
  IF n = 0 THEN ""
  ELSE IF n % 2 = 0 THEN LET half == Rep(s, n \div 2) IN half \o half
  ELSE s \o Rep(s, n - 1)

RECURSIVE TextLen(_)
TextLen(t) == IF Len(t) = 0 THEN 0 ELSE Len(Head(t)) + TextLen(Tail(t))

Whitespace == {"", " ", "\n", "\n\n", "  "}

RECURSIVE LStrip(_)
LStrip(t) ==
  IF Len(t) = 0 THEN t
  ELSE IF Head(t) \in Whitespace THEN LStrip(Tail(t)) ELSE t

RECURSIVE RStrip(_)
RStrip(t) ==
  IF Len(t) = 0 THEN t
  ELSE IF t[Len(t)] \in Whitespace THEN RStrip(SubSeq(t, 1, Len(t) - 1)) ELSE t

Strip(t) == RStrip(LStrip(t))

Contains(t, needle) == \E k \in 1..Len(t) : t[k] = needle

RECURSIVE Join(_, _)
Join(sep, strs) ==
  IF Len(strs) = 0 THEN ""
  ELSE IF Len(strs) = 1 THEN strs[1]
  ELSE strs[1] \o sep \o Join(sep, Tail(strs))

(***************************************************************************)
(* Catalog rows: a row is a function from its column names to values; a   *)
(* value is a string, or NaN for a null cell.                             *)
(***************************************************************************)
NaN == "nan"

RowGet(row, key, default) == IF key \in DOMAIN row THEN row[key] ELSE default

notna(v) == v # NaN

\* f"{similarity_score:.2f}": round to hundredths (ties to even), two digits
Fmt2(score) ==
  LET a == IF score < 0 THEN 0 - score ELSE score
      q == a \div 10
      r == a % 10
      h == IF r > 5 \/ (r = 5 /\ q % 2 = 1) THEN q + 1 ELSE q
      frac == h % 100
  IN  (IF score < 0 THEN "-" ELSE "") \o ToString(h \div 100) \o "."
        \o (IF frac < 10 THEN "0" ELSE "") \o ToString(frac)

(***************************************************************************)
(* OllamaService.generate_response                                         *)
(***************************************************************************)
ERR_PREFIX == "Error generating response:"

\* what requests.post does: raise, or return a response with a status and
\* a JSON body whose "response" key is a string, missing, or null
Backend(kind, status, msg, ctype, content) ==
  [kind |-> kind, status |-> status, msg |-> msg, ctype |-> ctype, content |-> content]

NONETYPE_LEN_MSG == "object of type 'NoneType' has no len()"

generate_response(prompt, image_base64, backend) ==
  LET payload == [prompt |-> prompt,
                  images |-> IF IsNone(image_base64) \/ image_base64 = Some("")
                             THEN <<>> ELSE <<Get(image_base64)>>]
      ret ==
        IF backend.kind = "raise"
        THEN <<ERR_PREFIX, " ", backend.msg>>
        ELSE IF backend.status = HTTP_OK
        THEN CASE backend.ctype = "str" -> backend.content
               [] backend.ctype = "missing" -> <<>>
               [] OTHER -> <<ERR_PREFIX, " ", NONETYPE_LEN_MSG>>
        ELSE <<ERR_PREFIX, " ", "HTTP ", ToString(backend.status)>>
  IN  [ret |-> ret, payload |-> payload]

(***************************************************************************)
(* OllamaService.generate_fashion_response                                 *)
(***************************************************************************)
HDR_UPPER == "RELATED ITEMS"
HDR_TITLE == "Related Items"

ItemInfo(item) ==
  "* " \o RowGet(item, "Item Name", "Unknown Item")
    \o (IF "Price" \in DOMAIN item /\ notna(item["Price"])
        THEN " - Price: " \o item["Price"] ELSE "")
    \o (IF "Brand" \in DOMAIN item /\ notna(item["Brand"])
        THEN " - Brand: " \o item["Brand"] ELSE "")
    \o (IF "Image URL" \in DOMAIN item /\ notna(item["Image URL"])
        THEN " - [View Image](" \o item["Image URL"] \o ")" ELSE "")

RECURSIVE ItemsList(_)
ItemsList(all_items) ==
  IF Len(all_items) = 0 THEN <<>>
  ELSE <<ItemInfo(Head(all_items))>> \o ItemsList(Tail(all_items))

ItemsText(all_items) == Join("\n", ItemsList(all_items))

MatchQuality_strict(similarity_score, threshold) ==
  IF similarity_score > threshold THEN "excellent match" ELSE "similar item"

MatchQuality(similarity_score, threshold) ==
  IF similarity_score >= threshold THEN "excellent match" ELSE "similar item"

Confidence(similarity_score, threshold) ==
  IF similarity_score >= threshold THEN "high confidence" ELSE "moderate confidence"

Prompt(matched_row, all_items, similarity_score, threshold) ==
  << "You are a fashion expert analyzing a user's uploaded image. \n\nThe user's image has been matched with ",
     MatchQuality(similarity_score, threshold),
     " in our database with ",
     Confidence(similarity_score, threshold),
     " (similarity score: ", Fmt2(similarity_score), ").\n\nMATCHED ITEM DETAILS:\n- Item Name: ",
     RowGet(matched_row, "Item Name", "Unknown"),
     "\n- Brand: ", RowGet(matched_row, "Brand", "Unknown"),
     "\n- Price: ", RowGet(matched_row, "Price", "Unknown"),
     "\n- Category: ", RowGet(matched_row, "Category", "Unknown"),
     "\n\n", HDR_UPPER, " IN DATABASE:\n",
     ItemsText(all_items),
     "\n\nPlease provide a detailed fashion analysis including:\n1. Description of the main item in the user's image\n2. Style analysis (colors, patterns, fit, occasion)\n3. Fashion recommendations and styling tips\n4. Similar alternatives from our database\n\nKeep the response informative, engaging, and fashion-focused. Use markdown formatting for better readability." >>

Fallback(matched_row, all_items, similarity_score, threshold) ==
  << "## Fashion Analysis Results\n\nBased on your image, I've identified a ",
     MatchQuality(similarity_score, threshold),
     " in our database:\n\n**Matched Item:** ",
     RowGet(matched_row, "Item Name", "Unknown"),
     "\n**Brand:** ", RowGet(matched_row, "Brand", "Unknown"),
     "\n**Price:** ", RowGet(matched_row, "Price", "Unknown"),
     "\n**Similarity Score:** ", Fmt2(similarity_score),
     "\n\n## ", HDR_TITLE, " Found\n\n",
     ItemsText(all_items),
     "\n\n*Note: The AI analysis was incomplete, but here are the items we found in our database that match your image.*" >>

TooShort_unstripped(response) == TextLen(response) < MinResponseLen

TooShort(response) == TextLen(response) = 0 \/ TextLen(Strip(response)) < MinResponseLen

HasItemsHeader_upperonly(response) == Contains(response, HDR_UPPER)

\* "RELATED ITEMS" in response or "Related Items" in response
HasItemsHeader(response) == Contains(response, HDR_UPPER) \/ Contains(response, HDR_TITLE)

ItemsSection(all_items) == << "\n\n## ", HDR_TITLE, " Found\n\n", ItemsText(all_items) >>

\* the backend sees the prompt, so its text may quote the listing: the token
\* ECHO_ITEMS in a backend text stands for the listing of the prompt
ECHO_ITEMS == "<listing of the prompt>"

RECURSIVE Quote(_, _)
Quote(content, all_items) ==
  IF Len(content) = 0 THEN <<>>
  ELSE <<IF Head(content) = ECHO_ITEMS THEN ItemsText(all_items) ELSE Head(content)>>
         \o Quote(Tail(content), all_items)

generate_fashion_response(user_image_base64, matched_row, all_items, similarity_score, threshold, backend) ==
  LET prompt == Prompt(matched_row, all_items, similarity_score, threshold)
      seen   == [backend EXCEPT !.content = Quote(backend.content, all_items)]
      call   == generate_response(prompt, user_image_base64, seen)
      r1     == IF TooShort(call.ret)
                THEN Fallback(matched_row, all_items, similarity_score, threshold)
                ELSE call.ret
      r2     == IF ~HasItemsHeader(r1) THEN r1 \o ItemsSection(all_items) ELSE r1
  IN  [ret |-> r2, payload |-> call.payload]

(***************************************************************************)
(* ImageProcessor.find_closest_match: cosine similarity, linear scan,      *)
(* first index wins a tie.  Vectors have integer components; the score is  *)
(* the cosine in thousandths, truncated.                                   *)
(***************************************************************************)
RECURSIVE Dot(_, _)
Dot(a, b) == IF Len(a) = 0 THEN 0 ELSE a[1] * b[1] + Dot(Tail(a), Tail(b))

Norm2(a) == Dot(a, a)

RECURSIVE ISqrtIn(_, _, _)
ISqrtIn(x, lo, hi) ==
  IF lo >= hi THEN lo
  ELSE LET mid == (lo + hi + 1) \div 2
       IN  IF mid * mid <= x THEN ISqrtIn(x, mid, hi) ELSE ISqrtIn(x, lo, mid - 1)

ISqrt(x) == ISqrtIn(x, 0, 1000)

MIN_SIMILARITY == 0 - 1000

cosine_similarity(q, e) ==
  IF Norm2(q) = 0 \/ Norm2(e) = 0 THEN MIN_SIMILARITY
  ELSE LET d == Dot(q, e)
           m == ISqrt((1000000 * d * d) \div (Norm2(q) * Norm2(e)))
       IN  IF d < 0 THEN 0 - m ELSE m

\* the scan over rows k..Len(data), carrying the best index and score so far
RECURSIVE Scan(_, _, _, _, _)
Scan(q, data, k, best, bestScore) ==
  IF k > Len(data) THEN [index |-> best, score |-> bestScore]
  ELSE LET s == cosine_similarity(q, data[k]["Embedding"])
       IN  IF best = 0 \/ s > bestScore
           THEN Scan(q, data, k + 1, k, s)
           ELSE Scan(q, data, k + 1, best, bestScore)

DimensionMismatch(q, data) ==
  \E k \in 1..Len(data) : Len(data[k]["Embedding"]) # Len(q)

\* the scan with a later row winning a tie
RECURSIVE ScanLast(_, _, _, _, _)
ScanLast(q, data, k, best, bestScore) ==
  IF k > Len(data) THEN [index |-> best, score |-> bestScore]
  ELSE LET s == cosine_similarity(q, data[k]["Embedding"])
       IN  IF best = 0 \/ s >= bestScore
           THEN ScanLast(q, data, k + 1, k, s)
           ELSE ScanLast(q, data, k + 1, best, bestScore)

find_closest_match_lastwins(q, data) == ScanLast(q, data, 1, 0, MIN_SIMILARITY)

\* [index |-> 0] is "no match" (closest_row is None)
find_closest_match(q, data) == Scan(q, data, 1, 0, MIN_SIMILARITY)

(***************************************************************************)
(* utils.helpers.get_all_items_for_image: the rows of the catalog that     *)
(* share the matched row's image reference, in catalog order.              *)
(***************************************************************************)
get_all_items_for_image(image_url, data) ==
  IF image_url = "" \/ image_url = NaN THEN <<>>
  ELSE SelectSeq(data, LAMBDA row : RowGet(row, "Image URL", "") = image_url)

\* utils.helpers.process_response: the report is handed on as it is
process_response(bot_response) == bot_response

(***************************************************************************)
(* The file system and the image argument of process_image.  A path is    *)
(* the sequence of its components: "/tmp/a.jpg" is <<"", "tmp", "a.jpg">>. *)
(***************************************************************************)
PathStr(p) == Join("/", p)

StartsWithTmp(p) == Len(p) >= 3 /\ p[1] = "" /\ p[2] = "tmp"

TmpA == <<"", "tmp", "a.jpg">>
TmpGone == <<"", "tmp", "gone.jpg">>
Example == <<"examples", "mens-blazer.jpg">>

InitFS == {TmpA, Example}

\* a file object (attribute name, which may be None), a path string, a list
\* of those, None, or something else
FileObj(name) == [kind |-> "file", name |-> name, elems |-> <<>>]
PathArg(p) == [kind |-> "str", name |-> Some(p), elems |-> <<>>]
ListArg(elems) == [kind |-> "list", name |-> None, elems |-> elems]
NoneArg == [kind |-> "none", name |-> None, elems |-> <<>>]
OtherArg == [kind |-> "other", name |-> None, elems |-> <<>>]
Elem(kind, p) == [kind |-> kind, name |-> Some(p)]

hasattr_name(image) == image.kind = "file"

(***************************************************************************)
(* State.                                                                  *)
(***************************************************************************)
Invs == {1, 2}

VARIABLES
  app,               \* "unbuilt", "ready" (constructed) or "failed" (__init__ raised)
  data,              \* self.data: the catalog, a sequence of rows
  fs,                \* the paths that exist in the file system
  pc,                \* per invocation: the stage process_image is at
  image,             \* per invocation: the argument
  oracle,            \* per invocation: what the collaborators will do
  image_path,        \* per invocation: local image_path (None until resolved)
  user_encoding,     \* per invocation: local user_encoding
  closest_row,       \* per invocation: local closest_row (None if unset)
  similarity_score,  \* per invocation: local similarity_score
  all_items,         \* per invocation: local all_items (None if unset)
  bot_response,      \* per invocation: local bot_response
  result,            \* per invocation: None, or how the invocation ended
  calls,             \* per invocation: calls made to each collaborator
  sent               \* per invocation: the payloads posted to the backend

vars == << app, data, fs, pc, image, oracle, image_path, user_encoding,
           closest_row, similarity_score, all_items, bot_response, result,
           calls, sent >>

locals == << image_path, user_encoding, closest_row, similarity_score,
             all_items, bot_response >>

NoCalls == [enc |-> 0, match |-> 0, group |-> 0, gen |-> 0, unlink |-> 0]

NoEncoding == [vector |-> None, base64 |-> None, error |-> None]

NoOracle ==
  [enc |-> [kind |-> "fail", vector |-> <<>>, error |-> None],
   match |-> "spec", group |-> "spec",
   backend |-> Backend("raise", 0, "", "missing", <<>>),
   post |-> "ok", unlink |-> TRUE]

Returned(text) == [type |-> "str", text |-> text]
Raised(msg) == [type |-> "raise", text |-> <<msg>>]

ExceptHandler_propagates(msg) == Raised(msg)

\* except Exception as e: return f"Error processing image: {str(e)}"
ExceptHandler(msg) == Returned(<<"Error processing image:", " ", msg>>)

Finish_retry(i, r) ==
  /\ result' = [result EXCEPT ![i] = Some(r)]
  /\ pc' = [pc EXCEPT ![i] =
              IF calls[i].gen = 0 /\ calls[i].enc <= 1 THEN "resolve" ELSE "done"]

\* return: the invocation ends with r
Finish(i, r) ==
  /\ result' = [result EXCEPT ![i] = Some(r)]
  /\ pc' = [pc EXCEPT ![i] = "done"]

Count(i, what) == calls' = [calls EXCEPT ![i][what] = @ + 1]

(***************************************************************************)
(* StyleFinderApp.__init__                                                 *)
(***************************************************************************)
\* DataFrame.empty: no rows, or no columns
Empty(df) == Len(df) = 0 \/ DOMAIN df[1] = {}

Row(name, brand, price, category, url, embedding) ==
  "Item Name" :> name @@ "Brand" :> brand @@ "Price" :> price
    @@ "Category" :> category @@ "Image URL" :> url @@ "Embedding" :> embedding

\* the dummy dataset of __init__, with the three random embeddings given
DummyDataset(e1, e2, e3) ==
  << Row("Elegant Blazer", "Fashion House", "$299", "Blazer",
         "http://example.com/blazer.jpg", e1),
     Row("Classic Shirt", "Style Co.", "$89", "Shirt",
         "http://example.com/shirt.jpg", e2),
     Row("Designer Dress", "Trendy Brand", "$199", "Dress",
         "http://example.com/dress.jpg", e3) >>

RejectsLoaded_never(loaded) == FALSE

\* if self.data.empty: raise ValueError("The loaded dataset is empty")
RejectsLoaded(loaded) == Empty(loaded)

\* ds.found: dataset_path is given and exists; ds.loaded: what read_pickle
\* returns; ds.dummy: the dataset built otherwise; ds.components_ok: the
\* ImageProcessor and OllamaService constructors return
Construct(datasets) ==
  /\ app = "unbuilt"
  /\ \E ds \in datasets :
       IF ds.found
       THEN /\ data' = ds.loaded
            /\ app' = IF RejectsLoaded(ds.loaded) \/ ~ds.components_ok
                      THEN "failed" ELSE "ready"
       ELSE /\ data' = ds.dummy
            /\ app' = IF ds.components_ok THEN "ready" ELSE "failed"
  /\ UNCHANGED << fs, pc, image, oracle, locals, result, calls, sent >>

(***************************************************************************)
(* StyleFinderApp.process_image, stage by stage.                           *)
(***************************************************************************)
\* the collaborators' outcomes are recorded in oracle[i] when they are drawn
Start(i, images) ==
  /\ app = "ready"
  /\ pc[i] = "idle"
  /\ \E img \in images : image' = [image EXCEPT ![i] = img]
  /\ pc' = [pc EXCEPT ![i] = "resolve"]
  /\ UNCHANGED << app, data, fs, oracle, locals, result, calls, sent >>

STAT_NONE_MSG == "stat: path should be string, bytes, os.PathLike or integer, not NoneType"

FormatOk(img) ==
  hasattr_name(img) \/ img.kind = "str" \/ (img.kind = "list" /\ Len(img.elems) > 0)

PathOf(img) == IF img.kind = "list" THEN img.elems[1].name ELSE img.name

FileMissing_unchecked(path, files) == FALSE

\* if not os.path.exists(image_path)
FileMissing(path, files) == path \notin files

Resolve(i) ==
  /\ pc[i] = "resolve"
  /\ IF ~FormatOk(image[i])
     THEN /\ Finish(i, Returned(<<"Error: Invalid image format received">>))
          /\ UNCHANGED image_path
     ELSE /\ image_path' = [image_path EXCEPT ![i] = PathOf(image[i])]
          /\ IF IsNone(PathOf(image[i]))
             THEN Finish(i, ExceptHandler(STAT_NONE_MSG))
             ELSE IF FileMissing(Get(PathOf(image[i])), fs)
             THEN Finish(i, Returned(<<"Error: Image file not found at ",
                                       PathStr(Get(PathOf(image[i])))>>))
             ELSE pc' = [pc EXCEPT ![i] = "encode"] /\ UNCHANGED result
  /\ UNCHANGED << app, data, fs, image, oracle, user_encoding, closest_row,
                  similarity_score, all_items, bot_response, calls, sent >>

ENCODE_DEFAULT_MSG == "Unable to process the image. Please try another image."
UNREADABLE_MSG == "cannot identify image file"

\* ImageProcessor.encode_image: fails on a file that is not there
encode_image(path, files, o) ==
  IF o.kind = "raise" THEN o
  ELSE IF path \notin files
  THEN [kind |-> "fail", vector |-> <<>>, error |-> Some(UNREADABLE_MSG)]
  ELSE o

\* if user_encoding['vector'] is None
EncodingFailed(enc) == IsNone(enc.vector)

Encode(i, outcomes) ==
  /\ pc[i] = "encode"
  /\ Count(i, "enc")
  /\ \E drawn \in outcomes :
     LET o == encode_image(Get(image_path[i]), fs, drawn)
         enc == [vector |-> IF o.kind = "ok" THEN Some(o.vector) ELSE None,
                 base64 |-> IF o.kind = "ok" THEN Some("base64:" \o PathStr(Get(image_path[i]))) ELSE None,
                 error  |-> o.error]
     IN  /\ oracle' = [oracle EXCEPT ![i].enc = drawn]
         /\ IF o.kind = "raise"
            THEN Finish(i, ExceptHandler(Get(o.error))) /\ UNCHANGED user_encoding
            ELSE /\ user_encoding' = [user_encoding EXCEPT ![i] = enc]
                 /\ IF EncodingFailed(enc)
                    THEN Finish(i, Returned(<<"Error: ",
                           IF IsNone(enc.error) THEN ENCODE_DEFAULT_MSG ELSE Get(enc.error)>>))
                    ELSE pc' = [pc EXCEPT ![i] = "match"] /\ UNCHANGED result
  /\ UNCHANGED << app, data, fs, image, image_path, closest_row,
                  similarity_score, all_items, bot_response, sent >>

NO_MATCH_MSG == "Error: Unable to find a match. Please try another image."
DIM_MSG == "shapes not aligned"
MATCHER_MSG == "matcher failed"
KEYERROR_NAME_MSG == "'Item Name'"

\* drawn: "spec" (the matcher does its job), "none" (it returns no row) or
\* "raise"
Match(i, outcomes) ==
  /\ pc[i] = "match"
  /\ Count(i, "match")
  /\ \E drawn \in outcomes :
     LET q == Get(user_encoding[i].vector)
         m == find_closest_match(q, data)
     IN  /\ oracle' = [oracle EXCEPT ![i].match = drawn]
         /\ IF drawn = "raise"
            THEN Finish(i, ExceptHandler(MATCHER_MSG))
                 /\ UNCHANGED << closest_row, similarity_score >>
            ELSE IF drawn = "spec" /\ DimensionMismatch(q, data)
            THEN Finish(i, ExceptHandler(DIM_MSG))
                 /\ UNCHANGED << closest_row, similarity_score >>
            ELSE IF drawn = "none" \/ m.index = 0
            THEN Finish(i, Returned(<<NO_MATCH_MSG>>))
                 /\ UNCHANGED << closest_row, similarity_score >>
            ELSE /\ closest_row' = [closest_row EXCEPT ![i] = Some(data[m.index])]
                 /\ similarity_score' = [similarity_score EXCEPT ![i] = m.score]
                 /\ IF "Item Name" \notin DOMAIN data[m.index]
                    THEN Finish(i, ExceptHandler(KEYERROR_NAME_MSG))
                    ELSE pc' = [pc EXCEPT ![i] = "group"] /\ UNCHANGED result
  /\ UNCHANGED << app, data, fs, image, image_path, user_encoding,
                  all_items, bot_response, sent >>

GROUPER_MSG == "grouper failed"

\* the single-item DataFrame built from the closest match
SingleItem(row) ==
  << "Item Name" :> RowGet(row, "Item Name", "Fashion Item")
       @@ "Brand" :> RowGet(row, "Brand", "Unknown")
       @@ "Price" :> RowGet(row, "Price", "N/A")
       @@ "Category" :> RowGet(row, "Category", "Fashion")
       @@ "Image URL" :> RowGet(row, "Image URL", "") >>

NeedsSingle_noneonly(found) == IsNone(found)

\* if all_items is None or all_items.empty
NeedsSingle(found) == IsNone(found) \/ Empty(Get(found))

Group_appends(i, outcomes) ==
  /\ pc[i] = "group"
  /\ Count(i, "group")
  /\ \E drawn \in outcomes :
     LET row == Get(closest_row[i])
         found == IF drawn = "none" THEN None
                  ELSE Some(get_all_items_for_image(RowGet(row, "Image URL", ""), data))
     IN  /\ oracle' = [oracle EXCEPT ![i].group = drawn]
         /\ IF drawn = "raise"
            THEN Finish(i, ExceptHandler(GROUPER_MSG)) /\ UNCHANGED << all_items, data >>
            ELSE /\ all_items' = [all_items EXCEPT ![i] =
                       IF NeedsSingle(found) THEN Some(SingleItem(row)) ELSE found]
                 /\ data' = IF NeedsSingle(found)
                            THEN Append(data, SingleItem(row)[1]) ELSE data
                 /\ pc' = [pc EXCEPT ![i] = "synthesize"]
                 /\ UNCHANGED result
  /\ UNCHANGED << app, fs, image, image_path, user_encoding,
                  closest_row, similarity_score, bot_response, sent >>

\* drawn: "spec" (the grouper does its job), "none" (it returns None) or
\* "raise"
Group(i, outcomes) ==
  /\ pc[i] = "group"
  /\ Count(i, "group")
  /\ \E drawn \in outcomes :
     LET row == Get(closest_row[i])
         found == IF drawn = "none" THEN None
                  ELSE Some(get_all_items_for_image(RowGet(row, "Image URL", ""), data))
     IN  /\ oracle' = [oracle EXCEPT ![i].group = drawn]
         /\ IF drawn = "raise"
            THEN Finish(i, ExceptHandler(GROUPER_MSG)) /\ UNCHANGED all_items
            ELSE /\ all_items' = [all_items EXCEPT ![i] =
                       IF NeedsSingle(found) THEN Some(SingleItem(row)) ELSE found]
                 /\ pc' = [pc EXCEPT ![i] = "synthesize"]
                 /\ UNCHANGED result
  /\ UNCHANGED << app, data, fs, image, image_path, user_encoding,
                  closest_row, similarity_score, bot_response, sent >>

Synthesize_retry(i, backends) ==
  /\ pc[i] = "synthesize"
  /\ Count(i, "gen")
  /\ \E drawn \in backends :
     LET r == generate_fashion_response(user_encoding[i].base64, Get(closest_row[i]),
                 Get(all_items[i]), similarity_score[i], SIMILARITY_THRESHOLD,
                 drawn)
         short == r.ret = Fallback(Get(closest_row[i]), Get(all_items[i]),
                                   similarity_score[i], SIMILARITY_THRESHOLD)
     IN  /\ oracle' = [oracle EXCEPT ![i].backend = drawn]
         /\ bot_response' = [bot_response EXCEPT ![i] = Some(r.ret)]
         /\ sent' = [sent EXCEPT ![i] =
                       IF short THEN Append(Append(@, r.payload), r.payload)
                       ELSE Append(@, r.payload)]
  /\ pc' = [pc EXCEPT ![i] = "cleanup"]
  /\ UNCHANGED << app, data, fs, image, image_path, user_encoding,
                  closest_row, similarity_score, all_items, result >>

\* Step 4: one call of generate_fashion_response, which posts once
Synthesize(i, backends) ==
  /\ pc[i] = "synthesize"
  /\ Count(i, "gen")
  /\ \E drawn \in backends :
     LET r == generate_fashion_response(user_encoding[i].base64, Get(closest_row[i]),
                 Get(all_items[i]), similarity_score[i], SIMILARITY_THRESHOLD,
                 drawn)
     IN  /\ oracle' = [oracle EXCEPT ![i].backend = drawn]
         /\ bot_response' = [bot_response EXCEPT ![i] = Some(r.ret)]
         /\ sent' = [sent EXCEPT ![i] = Append(@, r.payload)]
  /\ pc' = [pc EXCEPT ![i] = "cleanup"]
  /\ UNCHANGED << app, data, fs, image, image_path, user_encoding,
                  closest_row, similarity_score, all_items, result >>

POST_MSG == "process_response failed"

IsTemporary_anypath(img) == StartsWithTmp(Get(PathOf(img)))

\* if hasattr(image, 'name') and image.name.startswith('/tmp/')
IsTemporary(img) == hasattr_name(img) /\ StartsWithTmp(Get(img.name))

\* os.unlink inside try/except: pass
unlink(path, files, ok) == IF ok THEN files \ {path} ELSE files

Cleanup_unguarded(i, posts, unlinks) ==
  /\ pc[i] = "cleanup"
  /\ \E post \in posts, ok \in unlinks :
       /\ oracle' = [oracle EXCEPT ![i].post = post, ![i].unlink = ok]
       /\ IF IsTemporary(image[i])
          THEN /\ fs' = unlink(Get(image_path[i]), fs, ok)
               /\ Count(i, "unlink")
          ELSE UNCHANGED << fs, calls >>
       /\ IF IsTemporary(image[i]) /\ ~ok
          THEN Finish(i, ExceptHandler("[Errno 13] Permission denied"))
          ELSE IF post = "raise"
          THEN Finish(i, ExceptHandler(POST_MSG))
          ELSE Finish(i, Returned(process_response(Get(bot_response[i]))))
  /\ UNCHANGED << app, data, image, locals, sent >>

\* posts: process_response returns ("ok") or raises; unlinks: os.unlink
\* succeeds or raises
Cleanup(i, posts, unlinks) ==
  /\ pc[i] = "cleanup"
  /\ \E post \in posts, ok \in unlinks :
       /\ oracle' = [oracle EXCEPT ![i].post = post, ![i].unlink = ok]
       /\ IF IsTemporary(image[i])
          THEN /\ fs' = unlink(Get(image_path[i]), fs, ok)
               /\ Count(i, "unlink")
          ELSE UNCHANGED << fs, calls >>
       /\ IF post = "raise"
          THEN Finish(i, ExceptHandler(POST_MSG))
          ELSE Finish(i, Returned(process_response(Get(bot_response[i]))))
  /\ UNCHANGED << app, data, image, locals, sent >>

(***************************************************************************)
(* Inputs.                                                                 *)
(***************************************************************************)
\* two rows of one photo with the same embedding, and a row of another photo
CatShared ==
  << Row("Linen Blazer", "Acme", "$120", "Blazer", "http://shop/look1.jpg", <<1, 0>>),
     Row("Silk Tie", NaN, "$40", "Accessory", "http://shop/look1.jpg", <<1, 0>>),
     Row("Wool Coat", "Nord", NaN, "Coat", "http://shop/look2.jpg", <<0, 1>>) >>

\* only a name and an embedding; the second embedding has zero norm
CatSparse ==
  << "Item Name" :> "Plain Tee" @@ "Embedding" :> <<1, 1>>,
     "Item Name" :> "Cap" @@ "Embedding" :> <<0, 0>> >>

\* no 'Item Name' column
CatNoName ==
  << "Brand" :> "Acme" @@ "Image URL" :> "http://shop/look3.jpg"
       @@ "Embedding" :> <<1, 0>> >>

\* image references that are empty or null
CatBlankUrl ==
  << Row("Scarf", "Nord", "$25", "Accessory", "", <<1, 0>>),
     Row("Belt", "Acme", "$30", "Accessory", NaN, <<0, 1>>) >>

\* rows but no columns
CatNoColumns == << <<>> >>

LoadedCatalogs == {<<>>, CatNoColumns, CatShared, CatSparse, CatNoName, CatBlankUrl}

\* np.random.random: components in [0, 1), never all zero
RandomVectors == {<<1, 0>>, <<1, 1>>}

Dataset(found, loaded, dummy, components_ok) ==
  [found |-> found, loaded |-> loaded, dummy |-> dummy, components_ok |-> components_ok]

Datasets ==
  {Dataset(TRUE, c, <<>>, ok) : c \in LoadedCatalogs, ok \in BOOLEAN}
  \cup {Dataset(FALSE, <<>>, DummyDataset(e1, e2, e3), TRUE) :
          e1 \in RandomVectors, e2 \in RandomVectors, e3 \in RandomVectors}

Paths == {TmpA, TmpGone, Example}

Images ==
  {FileObj(Some(p)) : p \in Paths} \cup {FileObj(None)}
  \cup {PathArg(p) : p \in Paths}
  \cup {ListArg(<<>>)}
  \cup {ListArg(<<Elem(k, p)>>) : k \in {"file", "str"}, p \in Paths}
  \cup {NoneArg, OtherArg}

EncOk(v) == [kind |-> "ok", vector |-> v, error |-> None]
EncFail(error) == [kind |-> "fail", vector |-> <<>>, error |-> error]
EncRaise(msg) == [kind |-> "raise", vector |-> <<>>, error |-> Some(msg)]

EncOutcomes ==
  {EncOk(v) : v \in {<<1, 0>>, <<1, 1>>, <<0, 0>>, <<1>>}}
  \cup {EncFail(Some("Unsupported image format")), EncFail(None),
        EncRaise("encoder crashed")}

CollaboratorOutcomes == {"spec", "none", "raise"}

TIMEOUT_MSG == "HTTPConnectionPool(host='localhost', port=11434): Read timed out. (read timeout=60)"

CONNECTION_MSG == "HTTPConnectionPool(host='localhost', port=11434): Max retries exceeded with url: /api/generate (Caused by NewConnectionError('<urllib3.connection.HTTPConnection object at 0x7f3a>: Failed to establish a new connection: [Errno 111] Connection refused'))"

BackendRaises(msg) == Backend("raise", 0, msg, "missing", <<>>)
BackendStatus(status) == Backend("resp", status, "", "missing", <<>>)
BackendText(content) == Backend("resp", HTTP_OK, "", "str", content)

Prose(n) == Rep("x", n)

PipelineBackends ==
  { BackendRaises("Connection aborted."),
    BackendStatus(500),
    BackendText(<<Prose(MinResponseLen + 20)>>),
    BackendText(<<Prose(MinResponseLen), "\n\n## ", HDR_TITLE, "\n", ECHO_ITEMS>>) }

(***************************************************************************)
(* The pipeline: one app, one invocation, collaborators that may do        *)
(* anything.                                                               *)
(***************************************************************************)
Idle ==
  /\ pc = [i \in Invs |-> "idle"]
  /\ image = [i \in Invs |-> NoneArg]
  /\ oracle = [i \in Invs |-> NoOracle]
  /\ image_path = [i \in Invs |-> None]
  /\ user_encoding = [i \in Invs |-> NoEncoding]
  /\ closest_row = [i \in Invs |-> None]
  /\ similarity_score = [i \in Invs |-> 0]
  /\ all_items = [i \in Invs |-> None]
  /\ bot_response = [i \in Invs |-> None]
  /\ result = [i \in Invs |-> None]
  /\ calls = [i \in Invs |-> NoCalls]
  /\ sent = [i \in Invs |-> <<>>]

Init ==
  /\ app = "unbuilt"
  /\ data = <<>>
  /\ fs = InitFS
  /\ Idle

Next ==
  \/ Construct(Datasets)
  \/ Start(1, Images)
  \/ Resolve(1)
  \/ Encode(1, EncOutcomes)
  \/ Match(1, CollaboratorOutcomes)
  \/ Group(1, CollaboratorOutcomes)
  \/ Synthesize(1, PipelineBackends)
  \/ Cleanup(1, {"ok", "raise"}, BOOLEAN)

Spec == Init /\ [][Next]_vars

\* process_image is straight-line code: once an invocation has started, its
\* next statement runs, and a call to the encoder or to the backend (which
\* has timeout=60) completes, times out or raises.  Every stage action is
\* enabled whenever the invocation is at its stage and moves pc, so the
\* steps of Next that are Advance(i) steps are exactly the stage steps of i.
Stages == {"resolve", "encode", "match", "group", "synthesize", "cleanup"}

Advance(i) ==
  /\ pc[i] \in Stages
  /\ \E p \in (Stages \cup {"done"}) \ {pc[i]} : pc' = [pc EXCEPT ![i] = p]

SpecLive == Init /\ [][Next]_vars /\ WF_pc(Advance(1))

(***************************************************************************)
(* The synthesizer on its own: an invocation that has matched and grouped, *)
(* for every catalog row, a range of scores and of backend behaviours.     *)
(***************************************************************************)
SynthCatalogs == {CatShared, CatSparse, CatBlankUrl}

SynthScores ==
  {MIN_SIMILARITY, 0, SIMILARITY_THRESHOLD - 6, SIMILARITY_THRESHOLD - 5,
   SIMILARITY_THRESHOLD - 1, SIMILARITY_THRESHOLD, SIMILARITY_THRESHOLD + 1, 1000}

\* len("Error generating response: ")
ErrPrefixLen == Len(ERR_PREFIX) + 1

SynthBackends ==
  {BackendRaises(m) : m \in {"", "Connection aborted.", TIMEOUT_MSG, CONNECTION_MSG,
                             Rep("e", MinResponseLen - ErrPrefixLen - 1),
                             Rep("e", MinResponseLen - ErrPrefixLen)}}
  \cup {BackendStatus(c) : c \in {404, 500, 503}}
  \cup {Backend("resp", HTTP_OK, "", "missing", <<>>),
        Backend("resp", HTTP_OK, "", "null", <<>>)}
  \cup {BackendText(t) : t \in
         { <<>>, <<"">>, <<" ">>,
           <<Prose(MinResponseLen - 1)>>,
           <<Prose(MinResponseLen)>>,
           <<" ", Prose(MinResponseLen - 1), "\n">>,
           <<"\n", Prose(MinResponseLen), " ">>,
           <<Prose(MinResponseLen - 2), " ", "x">>,
           <<Prose(MinResponseLen + 20)>>,
           <<HDR_TITLE>>,
           <<Prose(MinResponseLen - Len(HDR_TITLE)), HDR_TITLE>>,
           <<Prose(MinResponseLen - Len(HDR_UPPER) - 1), HDR_UPPER>>,
           <<Prose(MinResponseLen), "\n", HDR_UPPER, "\n", ECHO_ITEMS>>,
           <<Prose(MinResponseLen), "\n", ECHO_ITEMS>>,
           <<Prose(MinResponseLen), " ", "related items">> }}

Grouped(row, catalog) ==
  LET found == get_all_items_for_image(RowGet(row, "Image URL", ""), catalog)
  IN  IF NeedsSingle(Some(found)) THEN SingleItem(row) ELSE found

InitSynth ==
  /\ app = "ready"
  /\ fs = InitFS
  /\ data \in SynthCatalogs
  /\ \E k \in 1..Len(data), img \in {FileObj(Some(TmpA)), PathArg(Example)},
        score \in SynthScores, b \in SynthBackends :
       /\ pc = [i \in Invs |-> IF i = 1 THEN "synthesize" ELSE "idle"]
       /\ image = [i \in Invs |-> IF i = 1 THEN img ELSE NoneArg]
       /\ oracle = [i \in Invs |->
            IF i = 1 THEN [NoOracle EXCEPT !.enc = EncOk(data[k]["Embedding"]),
                                           !.backend = b]
            ELSE NoOracle]
       /\ image_path = [i \in Invs |-> IF i = 1 THEN img.name ELSE None]
       /\ user_encoding = [i \in Invs |->
            IF i = 1 THEN [vector |-> Some(data[k]["Embedding"]),
                           base64 |-> Some("base64:" \o PathStr(Get(img.name))),
                           error |-> None]
            ELSE NoEncoding]
       /\ closest_row = [i \in Invs |-> IF i = 1 THEN Some(data[k]) ELSE None]
       /\ similarity_score = [i \in Invs |-> IF i = 1 THEN score ELSE 0]
       /\ all_items = [i \in Invs |-> IF i = 1 THEN Some(Grouped(data[k], data)) ELSE None]
       /\ calls = [i \in Invs |->
            IF i = 1 THEN [NoCalls EXCEPT !.enc = 1, !.match = 1, !.group = 1]
            ELSE NoCalls]
  /\ bot_response = [i \in Invs |-> None]
  /\ result = [i \in Invs |-> None]
  /\ sent = [i \in Invs |-> <<>>]

NextSynth ==
  \/ Synthesize(1, {oracle[1].backend})
  \/ Cleanup(1, {"ok"}, {TRUE})

SpecSynth == InitSynth /\ [][NextSynth]_vars

(***************************************************************************)
(* Properties.                                                             *)
(***************************************************************************)
Done(i) == pc[i] = "done"

ResultText(i) == Get(result[i]).text

\* C1: process_image always ends by returning a string, a report or an
\* error string, and never by raising, whatever the argument is and whatever
\* the encoder, the matcher, the grouper, the backend and process_response do.
C1_AlwaysReturnsString ==
  \A i \in Invs :
    /\ Done(i) => ~IsNone(result[i])
    /\ ~IsNone(result[i]) =>
         /\ Get(result[i]).type = "str"
         /\ Len(ResultText(i)) > 0

\* a collaborator raised (the catalog's vectors and the query differ in
\* dimension) and the invocation returned the error string
C1_Witness ==
  /\ Done(1)
  /\ calls[1].match = 1
  /\ oracle[1].match = "spec"
  /\ DimensionMismatch(Get(user_encoding[1].vector), data)
  /\ ResultText(1) = <<"Error processing image:", " ", DIM_MSG>>

(***************************************************************************)
(* What one call of generate_fashion_response was given and what it        *)
(* returned, for an invocation that has made the call.                     *)
(***************************************************************************)
Synthesized(i) == calls[i].gen > 0

Matched(i) == Get(closest_row[i])

Listing(i) == ItemsText(Get(all_items[i]))

Report(i) == Get(bot_response[i])

\* the text generate_response returned to generate_fashion_response
Generated(i) ==
  generate_response(sent[i][1].prompt, user_encoding[i].base64,
                    [oracle[i].backend EXCEPT
                       !.content = Quote(oracle[i].backend.content, Get(all_items[i]))]).ret

BackendFailed(b) == b.kind = "raise" \/ b.status # HTTP_OK

FallbackReport(i) ==
  Fallback(Matched(i), Get(all_items[i]), similarity_score[i], SIMILARITY_THRESHOLD)

\* C2: when the backend call fails (it raises, or answers with a status
\* other than 200), generate_fashion_response returns the fallback report and
\* nothing of the failure's text is in what it returns.
C2_BackendFailureGivesFallback ==
  \A i \in Invs :
    (Synthesized(i) /\ BackendFailed(oracle[i].backend)) =>
      /\ Report(i) = FallbackReport(i)
      /\ ~Contains(Report(i), ERR_PREFIX)

\* C3: whatever text the backend answers with (status 200), the text
\* generate_fashion_response returns contains the related-items listing.
C3_ListingAlwaysIncluded ==
  \A i \in Invs :
    (Synthesized(i) /\ ~BackendFailed(oracle[i].backend)
       /\ oracle[i].backend.ctype \in {"str", "missing"}) =>
      Contains(Report(i), Listing(i))

\* C4: a generated text that is empty or whose stripped length is below 100
\* is replaced by the fallback template, which carries the matched item's
\* name, brand and price, the score and the listing; a text whose stripped
\* length is 100 or more is kept (it is the beginning of what is returned).
C4_ShortTextReplaced ==
  \A i \in Invs :
    Synthesized(i) =>
      LET raw == Generated(i)
          out == Report(i)
      IN  IF TextLen(raw) = 0 \/ TextLen(Strip(raw)) <= MinResponseLen - 1
          THEN /\ out = FallbackReport(i)
               /\ Contains(out, RowGet(Matched(i), "Item Name", "Unknown"))
               /\ Contains(out, RowGet(Matched(i), "Brand", "Unknown"))
               /\ Contains(out, RowGet(Matched(i), "Price", "Unknown"))
               /\ Contains(out, Fmt2(similarity_score[i]))
               /\ Contains(out, Listing(i))
               /\ \A k \in 1..Len(raw) :
                    Contains(out, raw[k]) => raw[k] \in Whitespace \cup {HDR_TITLE}
          ELSE /\ Len(out) >= Len(raw)
               /\ SubSeq(out, 1, Len(raw)) = raw

\* a generated text of stripped length 99 (raw length 101) was replaced
C4_Witness ==
  /\ Synthesized(1)
  /\ oracle[1].backend = BackendText(<<" ", Prose(MinResponseLen - 1), "\n">>)
  /\ Report(1) = FallbackReport(1)

\* C5: the match is "excellent match" / "high confidence" exactly when the
\* score is at least the threshold and "similar item" / "moderate confidence"
\* otherwise, in the prompt and, when it is used, in the fallback report.
C5_Classification ==
  \A i \in Invs :
    Synthesized(i) =>
      LET high == ~(similarity_score[i] < SIMILARITY_THRESHOLD)
          prompt == sent[i][1].prompt
          quality == IF high THEN "excellent match" ELSE "similar item"
          other == IF high THEN "similar item" ELSE "excellent match"
      IN  /\ Contains(prompt, quality) /\ ~Contains(prompt, other)
          /\ Contains(prompt, "high confidence") <=> high
          /\ Contains(prompt, "moderate confidence") <=> ~high
          /\ Report(i) = FallbackReport(i) =>
               Contains(Report(i), quality) /\ ~Contains(Report(i), other)

\* the score equals the threshold and the fallback report was returned
C5_Witness ==
  /\ Synthesized(1)
  /\ similarity_score[1] = SIMILARITY_THRESHOLD
  /\ Report(1) = FallbackReport(1)
  /\ Contains(Report(1), "excellent match")
  /\ Contains(sent[1][1].prompt, "high confidence")

NoLaterStage(i, stages) == \A st \in stages : calls[i][st] = 0

\* C6: a failed stage short-circuits the later ones.  The encoder is called
\* only for a path that exists; once the image reference does not resolve,
\* the encoder yields no vector, or the matcher yields no match, the
\* invocation is over with that stage's error string and no later
\* collaborator has been called.
C6_ShortCircuit ==
  \A i \in Invs :
    /\ calls[i].enc > 0 => ~IsNone(image_path[i]) /\ Get(image_path[i]) \in InitFS
    /\ (pc[i] \notin {"idle", "resolve", "encode"} /\ calls[i].enc = 0) =>
         /\ Done(i)
         /\ NoLaterStage(i, {"match", "group", "gen", "unlink"})
         /\ \/ ResultText(i) = <<"Error: Invalid image format received">>
            \/ ResultText(i) = <<"Error processing image:", " ", STAT_NONE_MSG>>
            \/ /\ ~IsNone(image_path[i])
               /\ ResultText(i) = <<"Error: Image file not found at ",
                                    PathStr(Get(image_path[i]))>>
    /\ (calls[i].enc > 0 /\ IsNone(user_encoding[i].vector)) =>
         /\ Done(i)
         /\ NoLaterStage(i, {"match", "group", "gen", "unlink"})
         /\ oracle[i].enc.kind = "fail" =>
              ResultText(i)[1] = "Error: " /\ Len(ResultText(i)) = 2
    /\ (calls[i].match > 0 /\ IsNone(closest_row[i])) =>
         /\ Done(i)
         /\ NoLaterStage(i, {"group", "gen", "unlink"})
         /\ oracle[i].match = "none" => ResultText(i) = <<NO_MATCH_MSG>>

\* the file of a file object is not there: the invocation is over, with the
\* not-found string, and no collaborator was called
C6_Witness ==
  /\ Done(1)
  /\ image[1] = FileObj(Some(TmpGone))
  /\ calls[1] = NoCalls
  /\ ResultText(1) = <<"Error: Image file not found at ", "/tmp/gone.jpg">>

\* C7: the group handed to the synthesizer is never empty, and when the
\* grouper returned nothing or an empty selection it is the single record
\* made of the matched row's name, brand, price, category and image
\* reference, each missing field replaced by its default.
C7_GroupNeverEmpty ==
  \A i \in Invs :
    (pc[i] \in {"synthesize", "cleanup"} \/ Synthesized(i)) =>
      /\ ~IsNone(all_items[i])
      /\ Len(Get(all_items[i])) >= 1
      /\ LET row == Matched(i)
             url == IF "Image URL" \in DOMAIN row THEN row["Image URL"] ELSE ""
             nothing == \/ oracle[i].group = "none"
                        \/ get_all_items_for_image(url, data) = <<>>
             field(key, default) == IF key \in DOMAIN row THEN row[key] ELSE default
             single == Get(all_items[i])[1]
         IN  nothing =>
               /\ Len(Get(all_items[i])) = 1
               /\ DOMAIN single = {"Item Name", "Brand", "Price", "Category", "Image URL"}
               /\ single["Item Name"] = field("Item Name", "Fashion Item")
               /\ single["Brand"] = field("Brand", "Unknown")
               /\ single["Price"] = field("Price", "N/A")
               /\ single["Category"] = field("Category", "Fashion")
               /\ single["Image URL"] = field("Image URL", "")

\* the matched row has only a name: the grouper selected nothing and the
\* synthesizer was handed the single record with the defaults
C7_Witness ==
  /\ Synthesized(1)
  /\ oracle[1].group = "spec"
  /\ DOMAIN Matched(1) = {"Item Name", "Embedding"}
  /\ Len(Get(all_items[1])) = 1
  /\ Get(all_items[1])[1]["Brand"] = "Unknown"
  /\ Get(all_items[1])[1]["Image URL"] = ""

\* C8: a constructed app holds a catalog with at least one row, a dataset
\* that loads as empty makes the construction fail, and no invocation of
\* process_image runs against an empty catalog.
C8_CatalogNonEmpty ==
  /\ app = "ready" => Len(data) > 0
  /\ (app # "unbuilt" /\ Len(data) = 0) => app = "failed"
  /\ \A i \in Invs : pc[i] # "idle" => app = "ready" /\ Len(data) > 0

\* the dataset loaded as empty and the construction failed
C8_Witness ==
  /\ app = "failed"
  /\ data = <<>>
  /\ \A i \in Invs : pc[i] = "idle"

(***************************************************************************)
(* The matcher on its own: two invocations about to match the same query   *)
(* vector, for every catalog of up to MaxCatalog rows whose embeddings     *)
(* have components in -1..MaxComp.                                         *)
(***************************************************************************)
Components == (0 - 1)..MaxComp

Vectors == {<<x, y>> : x \in Components, y \in Components}

RECURSIVE CatalogsOfLen(_)
CatalogsOfLen(n) ==
  IF n = 0 THEN {<<>>}
  ELSE {Append(c, "Item Name" :> ("Item " \o ToString(n)) @@ "Embedding" :> v) :
          c \in CatalogsOfLen(n - 1), v \in Vectors}

MatchCatalogs == UNION {CatalogsOfLen(n) : n \in 1..MaxCatalog}

InitMatch ==
  /\ app = "ready"
  /\ fs = InitFS
  /\ data \in MatchCatalogs
  /\ pc = [i \in Invs |-> "match"]
  /\ image = [i \in Invs |-> PathArg(Example)]
  /\ image_path = [i \in Invs |-> Some(Example)]
  /\ \E q \in Vectors :
       /\ oracle = [i \in Invs |-> [NoOracle EXCEPT !.enc = EncOk(q)]]
       /\ user_encoding = [i \in Invs |->
            [vector |-> Some(q), base64 |-> Some("base64:" \o PathStr(Example)),
             error |-> None]]
  /\ closest_row = [i \in Invs |-> None]
  /\ similarity_score = [i \in Invs |-> 0]
  /\ all_items = [i \in Invs |-> None]
  /\ bot_response = [i \in Invs |-> None]
  /\ result = [i \in Invs |-> None]
  /\ calls = [i \in Invs |-> [NoCalls EXCEPT !.enc = 1]]
  /\ sent = [i \in Invs |-> <<>>]

NextMatch == \E i \in Invs : Match(i, {"spec"})

SpecMatch == InitMatch /\ [][NextMatch]_vars

Query(i) == Get(user_encoding[i].vector)

\* C9: the matcher returns the row whose similarity to the query is the
\* greatest of the catalog, the first such row in catalog order, with that
\* similarity as the score; a repeated call with the same query returns the
\* same row and score.
C9_MaxFirstIndex ==
  \A i \in Invs :
    (calls[i].match > 0 /\ oracle[i].match = "spec") =>
      /\ ~IsNone(closest_row[i])
      /\ \E k \in 1..Len(data) :
           /\ data[k] = Get(closest_row[i])
           /\ similarity_score[i] = cosine_similarity(Query(i), data[k]["Embedding"])
           /\ \A j \in 1..Len(data) :
                cosine_similarity(Query(i), data[j]["Embedding"]) <= similarity_score[i]
           /\ \A j \in 1..(k - 1) :
                cosine_similarity(Query(i), data[j]["Embedding"]) < similarity_score[i]
      /\ \A j \in Invs :
           (calls[j].match > 0 /\ Query(j) = Query(i)) =>
             closest_row[j] = closest_row[i] /\ similarity_score[j] = similarity_score[i]

\* three rows, the last two with the same embedding as the query: both
\* calls matched the second row
C9_Witness ==
  /\ \A i \in Invs : calls[i].match > 0
  /\ Len(data) = 3
  /\ data[1]["Embedding"] = <<0, 1>>
  /\ data[2]["Embedding"] = <<1, 0>>
  /\ data[3]["Embedding"] = <<1, 0>>
  /\ Query(1) = <<1, 0>>
  /\ closest_row[1] = Some(data[2])
  /\ closest_row[2] = Some(data[2])
  /\ similarity_score[1] = 1000

(***************************************************************************)
(* Two concurrent invocations on one app, with collaborators that answer   *)
(* the same way to the same request: the encoder's vector depends on the   *)
(* file, the backend's text is fixed.                                      *)
(***************************************************************************)
VectorOf(path) == IF path = TmpA THEN <<1, 0>> ELSE <<0, 1>>

ConcBackend == BackendText(<<Prose(MinResponseLen + 20)>>)

ConcImages ==
  {FileObj(Some(TmpA)), PathArg(TmpA), PathArg(Example), FileObj(Some(TmpGone)),
   ListArg(<<Elem("file", TmpA)>>), NoneArg}

ConcOracle(img) ==
  [NoOracle EXCEPT
     !.enc = IF FormatOk(img) THEN EncOk(VectorOf(Get(PathOf(img)))) ELSE @,
     !.backend = ConcBackend]

InitConc ==
  /\ app = "ready"
  /\ fs = InitFS
  /\ data \in {CatShared, CatBlankUrl}
  /\ pc = [i \in Invs |-> "resolve"]
  /\ image \in [Invs -> ConcImages]
  /\ oracle = [i \in Invs |-> ConcOracle(image[i])]
  /\ image_path = [i \in Invs |-> None]
  /\ user_encoding = [i \in Invs |-> NoEncoding]
  /\ closest_row = [i \in Invs |-> None]
  /\ similarity_score = [i \in Invs |-> 0]
  /\ all_items = [i \in Invs |-> None]
  /\ bot_response = [i \in Invs |-> None]
  /\ result = [i \in Invs |-> None]
  /\ calls = [i \in Invs |-> NoCalls]
  /\ sent = [i \in Invs |-> <<>>]

NextConc ==
  \E i \in Invs :
    \/ Resolve(i)
    \/ Encode(i, {oracle[i].enc})
    \/ Match(i, {"spec"})
    \/ Group(i, {"spec"})
    \/ Synthesize(i, {oracle[i].backend})
    \/ Cleanup(i, {"ok"}, {TRUE})

SpecConc == InitConc /\ [][NextConc]_vars

\* process_image run from beginning to end with nothing else running: the
\* collaborators answer as o says, the matcher and the grouper do their job
process_image(img, o, catalog, files) ==
  IF ~FormatOk(img) THEN Returned(<<"Error: Invalid image format received">>)
  ELSE IF IsNone(PathOf(img)) THEN ExceptHandler(STAT_NONE_MSG)
  ELSE IF FileMissing(Get(PathOf(img)), files)
  THEN Returned(<<"Error: Image file not found at ", PathStr(Get(PathOf(img)))>>)
  ELSE
    LET path == Get(PathOf(img))
        e == encode_image(path, files, o.enc)
    IN  IF e.kind = "raise" THEN ExceptHandler(Get(e.error))
        ELSE IF e.kind # "ok"
        THEN Returned(<<"Error: ",
               IF IsNone(e.error) THEN ENCODE_DEFAULT_MSG ELSE Get(e.error)>>)
        ELSE IF DimensionMismatch(e.vector, catalog) THEN ExceptHandler(DIM_MSG)
        ELSE
          LET m == find_closest_match(e.vector, catalog)
          IN  IF m.index = 0 THEN Returned(<<NO_MATCH_MSG>>)
              ELSE IF "Item Name" \notin DOMAIN catalog[m.index]
              THEN ExceptHandler(KEYERROR_NAME_MSG)
              ELSE Returned(process_response(
                     generate_fashion_response(
                       Some("base64:" \o PathStr(path)), catalog[m.index],
                       Grouped(catalog[m.index], catalog), m.score,
                       SIMILARITY_THRESHOLD, o.backend).ret))

\* C10: whatever the interleaving of two invocations, each returns what it
\* would return if it ran alone on the same argument.
C10_SameAsAlone ==
  \A i \in Invs :
    Done(i) => result[i] = Some(process_image(image[i], oracle[i], data, InitFS))

(***************************************************************************)
(* C11.  The catalog is read-only after construction: once the             *)
(* application is built, no step of any process_image invocation (whether  *)
(* the invocation ends in a report or in an error string, and including    *)
(* the step that builds the singleton group) changes self.data.            *)
(***************************************************************************)
C11_CatalogReadOnly == [][app = "ready" => data' = data]_vars

\* an invocation that built the singleton group and returned its report
C11_Witness ==
  /\ Done(1) /\ Synthesized(1)
  /\ Get(all_items[1]) = SingleItem(Get(closest_row[1]))
  /\ data = CatSparse

\* position of a stage in the order of process_image
Rank(p) ==
  CASE p = "idle" -> 0 [] p = "resolve" -> 1 [] p = "encode" -> 2
    [] p = "match" -> 3 [] p = "group" -> 4 [] p = "synthesize" -> 5
    [] p = "cleanup" -> 6 [] p = "done" -> 7

(***************************************************************************)
(* C12.  Provided each external call completes, times out or errors, every *)
(* process_image invocation that has started eventually ends; it ends in   *)
(* exactly one terminal state (its result is set exactly when it has       *)
(* ended, is a string, and never changes afterwards), and it never goes    *)
(* back to an earlier stage.                                               *)
(***************************************************************************)
C12_Terminates ==
  /\ \A i \in Invs : (pc[i] # "idle") ~> Done(i)
  /\ [](\A i \in Invs : /\ Done(i) <=> ~IsNone(result[i])
                        /\ Done(i) => Get(result[i]).type = "str")
  /\ [][\A i \in Invs : /\ Rank(pc'[i]) >= Rank(pc[i])
                        /\ Done(i) => result'[i] = result[i]]_vars

\* both kinds of terminal state: here the success report, after the backend
\* call timed out and the fallback was used
C12_Witness ==
  /\ Done(1) /\ Synthesized(1)
  /\ oracle[1].backend.kind = "raise"
  /\ ResultText(1) = FallbackReport(1)

(***************************************************************************)
(* C13.  In one invocation the stages run in the order encode, match,      *)
(* group, synthesize and each at most once: no collaborator is called      *)
(* twice, none is called before the one ahead of it, and the backend       *)
(* receives at most one request, also when the generation failed or was    *)
(* too short and the fallback report was built.                            *)
(***************************************************************************)
C13_EachStageOnce ==
  \A i \in Invs :
    /\ \A s \in {"enc", "match", "group", "gen"} : calls[i][s] <= 1
    /\ calls[i].gen <= calls[i].group
    /\ calls[i].group <= calls[i].match
    /\ calls[i].match <= calls[i].enc
    /\ Len(sent[i]) <= calls[i].gen
    /\ (pc[i] \in {"cleanup", "done"} /\ Synthesized(i)) => Len(sent[i]) = 1

\* all four stages ran, the backend call failed and the fallback was built
C13_Witness ==
  /\ Done(1)
  /\ \A s \in {"enc", "match", "group", "gen"} : calls[1][s] = 1
  /\ BackendFailed(oracle[1].backend)
  /\ Report(1) = FallbackReport(1)
  /\ Len(sent[1]) = 1

\* the input is a file object under /tmp/: the transient file of the request
TransientInput(i) ==
  /\ hasattr_name(image[i]) /\ ~IsNone(image[i].name)
  /\ IsTemporary(image[i])

\* os.unlink was called and raised
UnlinkFailed(i) == calls[i].unlink = 1 /\ ~oracle[i].unlink

(***************************************************************************)
(* C14.  The transient file of a request is released on every exit path:   *)
(* whenever an invocation whose input is a file object under /tmp/ has     *)
(* ended (with the report, with an early error string or through the       *)
(* except handler), the file is gone, unless deleting it was tried and     *)
(* failed.                                                                 *)
(***************************************************************************)
C14_ReleasedOnEveryExit ==
  \A i \in Invs :
    (Done(i) /\ TransientInput(i) /\ ~UnlinkFailed(i))
      => Get(image[i].name) \notin fs

(***************************************************************************)
(* C15.  A failure of the cleanup is never surfaced: when os.unlink raises *)
(* after the synthesizer has returned, process_image ends exactly as it    *)
(* would have had the deletion succeeded, i.e. it returns                  *)
(* process_response(bot_response) (or, if process_response itself raises,  *)
(* the except handler's string for that).                                  *)
(***************************************************************************)
C15_CleanupFailureSilent ==
  \A i \in Invs :
    (Done(i) /\ UnlinkFailed(i))
      => /\ Synthesized(i)
         /\ Get(result[i]) = IF oracle[i].post = "raise"
                             THEN ExceptHandler(POST_MSG)
                             ELSE Returned(process_response(Report(i)))

\* the deletion of /tmp/a.jpg failed and the report was returned
C15_Witness ==
  /\ Done(1) /\ UnlinkFailed(1)
  /\ oracle[1].post = "ok"
  /\ ResultText(1) = Report(1)
  /\ TmpA \in fs

\* the entry has the field, and it is neither null nor empty
Present(item, key) ==
  key \in DOMAIN item /\ item[key] # NaN /\ item[key] # ""

\* the bullet of an entry with every absent field left out
BulletOmittingAbsent(item) ==
  "* " \o RowGet(item, "Item Name", "Unknown Item")
    \o (IF Present(item, "Price") THEN " - Price: " \o item["Price"] ELSE "")
    \o (IF Present(item, "Brand") THEN " - Brand: " \o item["Brand"] ELSE "")
    \o (IF Present(item, "Image URL")
        THEN " - [View Image](" \o item["Image URL"] \o ")" ELSE "")

(***************************************************************************)
(* C16.  The listing given to the backend has exactly one bullet per entry *)
(* of the group, in group order, and each bullet shows the price, the      *)
(* brand and the image link only if the entry has that field, non-null and *)
(* non-empty: an absent field, including the empty image reference of the  *)
(* singleton group, is left out and never rendered as an empty             *)
(* placeholder.                                                            *)
(***************************************************************************)
C16_AbsentFieldsOmitted ==
  \A i \in Invs :
    Synthesized(i) =>
      LET group == Get(all_items[i])
          bullets == ItemsList(group)
      IN  /\ Len(bullets) = Len(group)
          /\ \A k \in 1..Len(group) : bullets[k] = BulletOmittingAbsent(group[k])
          /\ Contains(sent[i][1].prompt, Join("\n", bullets))

\* a text with one of the two headers the repair step looks for
HeaderIn(t) == Contains(t, "RELATED ITEMS") \/ Contains(t, "Related Items")

(***************************************************************************)
(* C17.  The repair step adds the listing at most once per call: what is   *)
(* returned is the base text (the generated text, or the fallback when     *)
(* that text is too short) either as it is or with the section "## Related *)
(* Items Found" + listing appended once.  When the fallback replaces the   *)
(* generated text nothing is appended to it; a generated text that has a   *)
(* 'RELATED ITEMS' or 'Related Items' header is returned unchanged; and    *)
(* the returned text always has such a header.                             *)
(***************************************************************************)
C17_ListingAddedAtMostOnce ==
  \A i \in Invs :
    Synthesized(i) =>
      LET raw == Generated(i)
          out == Report(i)
          base == IF TooShort(raw) THEN FallbackReport(i) ELSE raw
          section == ItemsSection(Get(all_items[i]))
      IN  /\ HeaderIn(out)
          /\ out = base \/ out = base \o section
          /\ TooShort(raw) => out = base
          /\ (~TooShort(raw) /\ HeaderIn(raw)) => out = raw
          /\ (~TooShort(raw) /\ ~HeaderIn(raw)) => out = raw \o section

\* the backend answered with a short text: the fallback, with its own header,
\* was returned and nothing was appended to it
C17_Witness ==
  /\ Synthesized(1)
  /\ oracle[1].backend = BackendText(<<Prose(MinResponseLen - 1)>>)
  /\ TooShort(Generated(1))
  /\ Report(1) = FallbackReport(1)
  /\ HeaderIn(Report(1))

(***************************************************************************)
(* C18.  process_image deletes at most one file per invocation and only a  *)
(* transient one: a step removes at most one file, no step adds one, and   *)
(* a file is removed only by an invocation whose input is a file object    *)
(* named by that file, with a name under /tmp/, after its synthesizer has  *)
(* returned and only once; an invocation given a path string or a list     *)
(* never calls os.unlink.                                                  *)
(***************************************************************************)
C18_OnlyTransientDeleted ==
  /\ [](\A i \in Invs :
          /\ calls[i].unlink <= 1
          /\ image[i].kind \in {"str", "list"} => calls[i].unlink = 0)
  /\ [][/\ fs' \subseteq fs
        /\ Cardinality(fs \ fs') <= 1
        /\ \A p \in fs \ fs' :
             \E i \in Invs :
               /\ hasattr_name(image[i]) /\ image[i].name = Some(p)
               /\ StartsWithTmp(p)
               /\ pc[i] = "cleanup" /\ ~IsNone(bot_response[i])
               /\ calls[i].unlink = 0 /\ calls'[i].unlink = 1]_vars

\* the invocation given the file object of /tmp/a.jpg has returned and the
\* file is gone
C18_Witness ==
  /\ Done(1) /\ image[1] = FileObj(Some(TmpA))
  /\ calls[1].unlink = 1
  /\ fs = InitFS \ {TmpA}

====
